---------------------------- MODULE Spec2Model ----------------------------
(***************************************************************************)
(* Model of src/main.py: a FastAPI service over one SQLite table           *)
(* "alumnos", accessed through SQLAlchemy sessions.                        *)
(*                                                                         *)
(* Every request runs in its own worker thread (the handlers are plain     *)
(* "def" functions) with its own Session (get_db).  A request's steps are  *)
(* its database calls: a SELECT, or a flush+COMMIT.  Python code between   *)
(* two database calls only touches the request's private objects, so it is *)
(* folded into the neighbouring database step.                             *)
(*                                                                         *)
(* Library behaviour the handlers rely on:                                 *)
(*  - the id column is SQLite's INTEGER PRIMARY KEY without AUTOINCREMENT: *)
(*    an INSERT that gives no id gets max(id)+1, or 1 in an empty table;   *)
(*  - a SELECT through the sqlite3 driver runs outside any transaction, so *)
(*    a session holds no lock and no snapshot between two database calls;  *)
(*  - db.commit() flushes and commits in one call: BEGIN, the DML, COMMIT; *)
(*    the write lock makes this one atomic step for the other requests;    *)
(*  - the flush of a modified object emits UPDATE ... SET only the columns *)
(*    whose value differs from the value loaded, WHERE id = ?, and raises  *)
(*    StaleDataError when no row matched; it emits nothing when no column  *)
(*    differs; a DELETE that matches no row only warns;                    *)
(*  - db.commit() expires the object; db.refresh() re-SELECTs it by id and *)
(*    raises InvalidRequestError when the row is gone.                     *)
(***************************************************************************)
EXTENDS Integers, Sequences, FiniteSets, TLC

\* ------------------------------------------------------------------ bounds
\* Number of requests that can be in flight at once.
NumReq == 2
\* Largest id the table may hand out (crear_alumno is not taken beyond it).
MaxId == 2

Requests == 1..NumReq
Ids == 1..MaxId
\* The values a request can carry.  nombre is carried through every
\* operation but takes one value; semestre and activo take two each.
Nombres == {"Ana"}
Semestres == {3, 4}
Fields == {"nombre", "semestre", "activo"}

VARIABLES
    alumnos,      \* the table: the set of stored records, each with its id
    sessions,     \* the Session objects that are open
    pc,           \* per request: where it stands
    db,           \* per request: its Session (0: none)
    alumno_id,    \* per request: the handler's path parameter (0: none)
    alumno,       \* per request: the handler's validated body
    db_alumno,    \* per request: the ORM object the handler holds
    response,     \* per request: what is sent back
    solo,         \* history, per request: no other request has been in
                  \* flight since it arrived
    last          \* history: the previous request and its response, kept
                  \* while requests run one at a time

vars == <<alumnos, sessions, pc, db, alumno_id, alumno, db_alumno, response,
          solo, last>>

\* ------------------------------------------------------------- data shapes
\* class AlumnoCreate: the three client-supplied fields.
AlumnoCreate == [nombre : Nombres, semestre : Semestres, activo : BOOLEAN]

\* class AlumnoResponse(AlumnoCreate): the same with the id.
AlumnoResponse(id, row) ==
    [id |-> id, nombre |-> row.nombre, semestre |-> row.semestre,
     activo |-> row.activo]

\* class Alumno: a row of the table without its key.
Alumno(nombre, semestre, activo) ==
    [nombre |-> nombre, semestre |-> semestre, activo |-> activo]

NoRow == Alumno("Ana", 3, TRUE)

\* The ORM object of a request: its key, the column values it was loaded
\* with, its current attribute values, and whether this session has
\* committed a row change for it.
NoObject == [id |-> 0, loaded |-> NoRow, attrs |-> NoRow, written |-> FALSE]

NoResponse == [status |-> 0, detail |-> "", body |-> <<>>]

NoLast == [handler |-> "none", alumno_id |-> 0, response |-> NoResponse,
           prev |-> "none"]

\* ---------------------------------------------------------- request input
\* A JSON body as the client sends it: the values, the fields left out and
\* the fields whose JSON type is not the declared one.
\* (A field left out carries a placeholder in val that no one reads; only a
\* field that is present can have the wrong type.)
RawBodies ==
    { raw \in [val : AlumnoCreate,
               absent : {{}, {"nombre"}, {"semestre"}, {"activo"}},
               wrong : {{}, {"semestre"}}] :
        /\ raw.wrong \cap raw.absent = {}
        /\ "semestre" \in raw.absent => raw.val.semestre = 3
        /\ "activo" \in raw.absent => ~raw.val.activo }

\* A validation that asks for nombre only.
ValidAlumnoCreate_OnlyNombre(raw) ==
    /\ raw.wrong \cap (Fields \ raw.absent) = {}
    /\ "nombre" \notin raw.absent

\* Pydantic validation of AlumnoCreate: nombre and semestre are required,
\* activo has a default, every field present must have its declared type.
ValidAlumnoCreate(raw) ==
    /\ raw.wrong \cap (Fields \ raw.absent) = {}
    /\ "nombre" \notin raw.absent
    /\ "semestre" \notin raw.absent

\* A parse that gives activo no default.
ParseAlumnoCreate_NoDefault(raw) ==
    Alumno(raw.val.nombre, raw.val.semestre, raw.val.activo)

\* The AlumnoCreate object built from a valid body.
ParseAlumnoCreate(raw) ==
    Alumno(raw.val.nombre, raw.val.semestre,
           IF "activo" \in raw.absent THEN TRUE ELSE raw.val.activo)

\* A query parameter without its default.
ParseActivo_NoDefault(given, value) == value

\* The query parameter of leer_alumnos, "activo: bool = True".
ParseActivo(given, value) == IF given THEN value ELSE TRUE

\* --------------------------------------------------------------- the table
MaxOf(S) == CHOOSE x \in S : \A y \in S : y <= x

\* The ids in use.
IdsOf(t) == {a.id : a \in t}

\* The columns of a stored record other than its key.
RowOf(a) == Alumno(a.nombre, a.semestre, a.activo)

\* An id taken from the number of rows.
NextId_Count(t) == Cardinality(t) + 1

\* The id SQLite gives an INSERT without one.
NextId(t) == IF t = {} THEN 1 ELSE MaxOf(IdsOf(t)) + 1

\* INSERT INTO alumnos (nombre, semestre, activo) VALUES (...)
Insert(t, row) == t \cup {AlumnoResponse(NextId(t), row)}

\* SELECT ... WHERE id = ?
Select(t, id) == {a \in t : a.id = id}

\* UPDATE alumnos SET <cols> WHERE id = ?
Update(t, id, cols, row) ==
    { IF a.id = id
      THEN [id |-> a.id,
            nombre |-> IF "nombre" \in cols THEN row.nombre ELSE a.nombre,
            semestre |-> IF "semestre" \in cols THEN row.semestre
                         ELSE a.semestre,
            activo |-> IF "activo" \in cols THEN row.activo ELSE a.activo]
      ELSE a : a \in t }

\* A DELETE without its WHERE clause.
Delete_NoWhere(t, id) == {}

\* DELETE FROM alumnos WHERE id = ?
Delete(t, id) == {a \in t : a.id # id}

\* SELECT ... WHERE activo = ?, the rows in rowid order from rowid i on.
RECURSIVE FilterActivo(_, _, _)
FilterActivo(t, activo, i) ==
    IF t = {} \/ i > MaxOf(IdsOf(t))
    THEN <<>>
    ELSE (IF \E a \in Select(t, i) : a.activo = activo
          THEN <<CHOOSE a \in Select(t, i) : a.activo = activo>>
          ELSE <<>>) \o FilterActivo(t, activo, i + 1)

\* The object .first() returns for a SELECT by id that found a row.
Load(t, id) ==
    LET a == CHOOSE x \in Select(t, id) : TRUE
    IN  [id |-> a.id, loaded |-> RowOf(a), attrs |-> RowOf(a),
         written |-> FALSE]

\* A flush that never writes activo.
Modified_NoActivo(obj) ==
    {c \in {"nombre", "semestre"} : obj.attrs[c] # obj.loaded[c]}

\* The columns of an object whose attribute differs from the loaded value:
\* the SET list of the flush.
Modified(obj) == {c \in Fields : obj.attrs[c] # obj.loaded[c]}

\* --------------------------------------------------------------- responses
Ok(body) == [status |-> 200, detail |-> "", body |-> body]

Eliminado == [status |-> 200, detail |-> "Alumno eliminado", body |-> <<>>]

NotFound == [status |-> 404, detail |-> "Alumno no encontrado", body |-> <<>>]

Unprocessable == [status |-> 422, detail |-> "validation error", body |-> <<>>]

ServerError(exc) == [status |-> 500, detail |-> exc, body |-> <<>>]

\* ------------------------------------------------------------------ frames
\* No request but r is in flight.
Serial(r) == \A q \in Requests \ {r} : pc[q] = "idle"

\* The id of the record a response describes.
Target(l) ==
    IF l.handler = "crear_alumno" /\ l.response.status = 200
    THEN l.response.body[1].id
    ELSE l.alumno_id

\* Request r leaves handler h, called with path parameter id, with
\* response resp: the handler's locals are gone, the response is sent.
\* (last.prev: the handler of the request before, when that request
\* succeeded on the id this one names.)
Return(r, h, id, resp) ==
    /\ pc' = [pc EXCEPT ![r] = "exit"]
    /\ alumno_id' = [alumno_id EXCEPT ![r] = 0]
    /\ alumno' = [alumno EXCEPT ![r] = NoRow]
    /\ db_alumno' = [db_alumno EXCEPT ![r] = NoObject]
    /\ response' = [response EXCEPT ![r] = resp]
    /\ last' = IF solo[r]
               THEN [handler |-> h, alumno_id |-> id, response |-> resp,
                     prev |-> IF /\ last.response.status = 200
                                 /\ id # 0
                                 /\ Target(last) = id
                              THEN last.handler
                              ELSE "none"]
               ELSE NoLast
    /\ UNCHANGED <<sessions, db, solo>>

\* Request r goes on to the database call at label, with these locals.
Goto(r, label, id, body, obj) ==
    /\ pc' = [pc EXCEPT ![r] = label]
    /\ alumno_id' = [alumno_id EXCEPT ![r] = id]
    /\ alumno' = [alumno EXCEPT ![r] = body]
    /\ db_alumno' = [db_alumno EXCEPT ![r] = obj]
    /\ UNCHANGED <<sessions, db, response, solo, last>>

\* The session of a new request: a Session object no request holds.
SessionLocal(open) == CHOOSE s \in 1..(Cardinality(open) + 1) : s \notin open

Init ==
    /\ alumnos = {}
    /\ sessions = {}
    /\ pc = [r \in Requests |-> "idle"]
    /\ db = [r \in Requests |-> 0]
    /\ alumno_id = [r \in Requests |-> 0]
    /\ alumno = [r \in Requests |-> NoRow]
    /\ db_alumno = [r \in Requests |-> NoObject]
    /\ response = [r \in Requests |-> NoResponse]
    /\ solo = [r \in Requests |-> FALSE]
    /\ last = NoLast

\* ------------------------------------------------------------------ get_db
\* A request arrives; Depends(get_db) opens its session and yields it.
get_db(r) ==
    /\ pc[r] = "idle"
    /\ db' = [db EXCEPT ![r] = SessionLocal(sessions)]
    /\ sessions' = sessions \cup {db'[r]}
    /\ pc' = [pc EXCEPT ![r] = "ready"]
    /\ solo' = [q \in Requests |-> Serial(r) /\ q = r]
    /\ last' = IF Serial(r) THEN last ELSE NoLast
    /\ UNCHANGED <<alumnos, alumno_id, alumno, db_alumno, response>>

\* A get_db that closes the session after a successful handler only.
close_OnSuccessOnly(r) ==
    /\ pc[r] = "exit"
    /\ sessions' = IF response[r].status = 200
                   THEN sessions \ {db[r]}
                   ELSE sessions
    /\ db' = [db EXCEPT ![r] = 0]
    /\ pc' = [pc EXCEPT ![r] = "idle"]
    /\ response' = [response EXCEPT ![r] = NoResponse]
    /\ solo' = [solo EXCEPT ![r] = FALSE]
    /\ UNCHANGED <<alumnos, alumno_id, alumno, db_alumno, last>>

\* The finally block of get_db: the session is closed, the request is over.
close(r) ==
    /\ pc[r] = "exit"
    /\ sessions' = sessions \ {db[r]}
    /\ db' = [db EXCEPT ![r] = 0]
    /\ pc' = [pc EXCEPT ![r] = "idle"]
    /\ response' = [response EXCEPT ![r] = NoResponse]
    /\ solo' = [solo EXCEPT ![r] = FALSE]
    /\ UNCHANGED <<alumnos, alumno_id, alumno, db_alumno, last>>

\* ------------------------------------------------------------ crear_alumno
\* The call crear_alumno(alumno, db) up to db.commit(): the INSERT.
crear_alumno(r, body) ==
    /\ NextId(alumnos) <= MaxId
    /\ alumnos' = Insert(alumnos, body)
    /\ Goto(r, "crear_refresh", 0, body,
            [id |-> NextId(alumnos), loaded |-> body, attrs |-> body,
             written |-> TRUE])

\* POST /alumnos/ with a JSON body: validation, then the handler.
post_alumnos(r, raw) ==
    /\ pc[r] = "ready"
    /\ IF ValidAlumnoCreate(raw)
       THEN crear_alumno(r, ParseAlumnoCreate(raw))
       ELSE /\ UNCHANGED alumnos
            /\ Return(r, "crear_alumno", 0, Unprocessable)

\* db.refresh(db_alumno); return db_alumno.
crear_refresh(r) ==
    /\ pc[r] = "crear_refresh"
    /\ UNCHANGED alumnos
    /\ IF Select(alumnos, db_alumno[r].id) # {}
       THEN Return(r, "crear_alumno", 0,
                   Ok(<<AlumnoResponse(db_alumno[r].id,
                                       Load(alumnos, db_alumno[r].id).loaded)>>))
       ELSE Return(r, "crear_alumno", 0, ServerError("InvalidRequestError"))

\* ------------------------------------------------------------- leer_alumno
\* GET /alumnos/{alumno_id}: one SELECT.
leer_alumno(r, id) ==
    /\ pc[r] = "ready"
    /\ UNCHANGED alumnos
    /\ IF Select(alumnos, id) # {}
       THEN Return(r, "leer_alumno", id, Ok(<<AlumnoResponse(id, Load(alumnos, id).loaded)>>))
       ELSE Return(r, "leer_alumno", id, NotFound)

\* ------------------------------------------------------------ leer_alumnos
\* GET /alumnos/ with or without ?activo=: one SELECT, the rows in the
\* table's order.
leer_alumnos(r, given, value) ==
    /\ pc[r] = "ready"
    /\ UNCHANGED alumnos
    /\ Return(r, "leer_alumnos", 0,
              Ok(FilterActivo(alumnos, ParseActivo(given, value), 1)))

\* ------------------------------------------------------- actualizar_alumno
\* An update that inserts the record when the id is not there.
actualizar_alumno_Upsert(r, id, body) ==
    IF Select(alumnos, id) # {}
    THEN /\ UNCHANGED alumnos
         /\ Goto(r, "actualizar_commit", id, body,
                 [Load(alumnos, id) EXCEPT !.attrs = body])
    ELSE /\ alumnos' = alumnos \cup {AlumnoResponse(id, body)}
         /\ Return(r, "actualizar_alumno", id,
                   Ok(<<AlumnoResponse(id, body)>>))

\* The call actualizar_alumno(alumno_id, alumno, db) up to db.commit(): the
\* SELECT, then the three assignments on the object it returned.
actualizar_alumno(r, id, body) ==
    /\ UNCHANGED alumnos
    /\ IF Select(alumnos, id) # {}
       THEN Goto(r, "actualizar_commit", id, body,
                 [Load(alumnos, id) EXCEPT !.attrs = body])
       ELSE Return(r, "actualizar_alumno", id, NotFound)

\* PUT /alumnos/{alumno_id} with a JSON body: validation, then the handler.
put_alumnos(r, id, raw) ==
    /\ pc[r] = "ready"
    /\ IF ValidAlumnoCreate(raw)
       THEN actualizar_alumno(r, id, ParseAlumnoCreate(raw))
       ELSE /\ UNCHANGED alumnos
            /\ Return(r, "actualizar_alumno", id, Unprocessable)

\* db.commit(): the flush writes the modified columns, then COMMIT.
actualizar_commit(r) ==
    /\ pc[r] = "actualizar_commit"
    /\ IF Modified(db_alumno[r]) = {}
       THEN /\ UNCHANGED alumnos
            /\ Goto(r, "actualizar_refresh", alumno_id[r], alumno[r],
                    db_alumno[r])
       ELSE IF Select(alumnos, db_alumno[r].id) # {}
       THEN /\ alumnos' = Update(alumnos, db_alumno[r].id,
                                 Modified(db_alumno[r]), db_alumno[r].attrs)
            /\ Goto(r, "actualizar_refresh", alumno_id[r], alumno[r],
                    [db_alumno[r] EXCEPT !.loaded = db_alumno[r].attrs,
                                         !.written = TRUE])
       ELSE /\ UNCHANGED alumnos
            /\ Return(r, "actualizar_alumno", alumno_id[r],
                      ServerError("StaleDataError"))

\* db.refresh(db_alumno); return db_alumno.
actualizar_refresh(r) ==
    /\ pc[r] = "actualizar_refresh"
    /\ UNCHANGED alumnos
    /\ IF Select(alumnos, db_alumno[r].id) # {}
       THEN Return(r, "actualizar_alumno", alumno_id[r],
                   Ok(<<AlumnoResponse(db_alumno[r].id,
                                       Load(alumnos, db_alumno[r].id).loaded)>>))
       ELSE Return(r, "actualizar_alumno", alumno_id[r],
                   ServerError("InvalidRequestError"))

\* --------------------------------------------------------- eliminar_alumno
\* DELETE /alumnos/{alumno_id} up to db.delete(alumno): the SELECT.
eliminar_alumno(r, id) ==
    /\ pc[r] = "ready"
    /\ UNCHANGED alumnos
    /\ IF Select(alumnos, id) # {}
       THEN Goto(r, "eliminar_commit", id, NoRow, Load(alumnos, id))
       ELSE Return(r, "eliminar_alumno", id, NotFound)

\* db.delete(alumno); db.commit(); return the confirmation.
eliminar_commit(r) ==
    /\ pc[r] = "eliminar_commit"
    /\ alumnos' = Delete(alumnos, db_alumno[r].id)
    /\ Return(r, "eliminar_alumno", alumno_id[r], Eliminado)

\* --------------------------------------------------------- storage failure
\* The handler a request is in, by the database call it is about to make.
HandlerAt(label) ==
    CASE label = "crear_refresh" -> "crear_alumno"
      [] label \in {"actualizar_commit", "actualizar_refresh"}
            -> "actualizar_alumno"
      [] OTHER -> "eliminar_alumno"

\* The database call a request is about to make raises OperationalError
\* (disk error, database locked): the call writes nothing, the exception
\* leaves the handler and the request is answered 500.
storage_failure(r) ==
    /\ pc[r] \in {"crear_refresh", "actualizar_commit", "actualizar_refresh",
                  "eliminar_commit"}
    /\ UNCHANGED alumnos
    /\ Return(r, HandlerAt(pc[r]), alumno_id[r],
              ServerError("OperationalError"))

\* The same in the first database call of a handler.
storage_failure_first(r, h) ==
    /\ pc[r] = "ready"
    /\ UNCHANGED alumnos
    /\ Return(r, h, 0, ServerError("OperationalError"))

\* ------------------------------------------------------------------- specs
Handlers == {"crear_alumno", "leer_alumno", "leer_alumnos",
             "actualizar_alumno", "eliminar_alumno"}

\* The steps request r can take when bodies are drawn from the set bodies.
StepOn(r, bodies) ==
    \/ get_db(r)
    \/ \E raw \in bodies : post_alumnos(r, raw)
    \/ crear_refresh(r)
    \/ \E id \in Ids : leer_alumno(r, id)
    \/ \E given \in BOOLEAN, value \in BOOLEAN : leer_alumnos(r, given, value)
    \/ \E id \in Ids, raw \in bodies : put_alumnos(r, id, raw)
    \/ actualizar_commit(r)
    \/ actualizar_refresh(r)
    \/ \E id \in Ids : eliminar_alumno(r, id)
    \/ eliminar_commit(r)
    \/ storage_failure(r)
    \/ \E h \in Handlers : storage_failure_first(r, h)
    \/ close(r)

Step(r) == StepOn(r, RawBodies)

Next == \E r \in Requests : Step(r)

\* Any interleaving of the requests' database calls.
Spec == Init /\ [][Next]_vars

\* The bodies of the liveness check: every student active, no type error.
FairBodies ==
    {raw \in RawBodies :
        raw.val.activo /\ raw.wrong = {} /\ raw.absent \subseteq {"nombre"}}

FairStep(r) == StepOn(r, FairBodies)

FairNext == \E r \in Requests : FairStep(r)

\* Every request runs in a thread of its own: a request that can take a step
\* eventually takes one.
FairSpec ==
    Init /\ [][FairNext]_vars /\ \A r \in Requests : WF_vars(FairStep(r))

\* ------------------------------------------------------------------ claims
\* Request r takes the step that sends its response.
Responds(r) == pc[r] # "exit" /\ pc'[r] = "exit"

\* Request r takes the first step of its handler.
Starts(r) == pc[r] = "ready" /\ pc'[r] # "ready"

\* C2: in every reachable state no two stored records share an id, and in
\* every step each stored id stays in the table unless that step is the
\* commit of a delete for that id (so no step changes a record's id, and
\* create, get, list and update remove nothing).
C2_UniqueIds ==
    \A a \in alumnos, b \in alumnos : a.id = b.id => a = b

C2_IdKept ==
    \A a \in alumnos :
        \/ a.id \in IdsOf(alumnos')
        \/ \E r \in Requests : eliminar_commit(r) /\ db_alumno[r].id = a.id

\* C2: ids are unique in every state and a stored id leaves the table only
\* by the commit of a delete for it.
C2_IdsUniqueAndStable == []C2_UniqueIds /\ [][C2_IdKept]_vars

\* Two records are stored while an update and a delete are both about to
\* commit.
C2_Witness ==
    /\ Cardinality(alumnos) = 2
    /\ \E r \in Requests, q \in Requests :
        pc[r] = "actualizar_commit" /\ pc[q] = "eliminar_commit"

\* C3: a get, an update with a valid body, or a delete, on an id that has no
\* record, answers 404 and leaves the table as it was.
C3_Step(r, id) ==
    (\/ leer_alumno(r, id)
     \/ eliminar_alumno(r, id)
     \/ \E raw \in RawBodies : ValidAlumnoCreate(raw) /\ put_alumnos(r, id, raw))
    => /\ response'[r].status = 404
       /\ response'[r].detail = "Alumno no encontrado"
       /\ alumnos' = alumnos

\* C3: get, update and delete on an absent id answer 404 and change nothing.
C3_AbsentIdNotFound ==
    [][\A r \in Requests :
          Starts(r) => \A id \in Ids \ IdsOf(alumnos) : C3_Step(r, id)]_vars

\* An update on an absent id has just been answered 404 while another record
\* is stored.
C3_Witness ==
    /\ last.handler = "actualizar_alumno"
    /\ last.response.status = 404
    /\ alumnos # {}
    /\ last.alumno_id \notin IdsOf(alumnos)

\* C4: list answers 200 with exactly the records whose activo equals the
\* filter, each once, the filter being true when the caller gives none; the
\* answer is empty when none matches; the table is unchanged.
C4_Step(r, given, value) ==
    leer_alumnos(r, given, value) =>
        LET filtro == IF given THEN value ELSE TRUE
            body == response'[r].body
            matching == {a \in alumnos : a.activo = filtro}
        IN  /\ response'[r].status = 200
            /\ Len(body) = Cardinality(matching)
            /\ {body[i] : i \in 1..Len(body)} = matching
            /\ alumnos' = alumnos

\* C4: list returns exactly the records matching the filter (default true)
\* and changes nothing.
C4_ListExactlyMatching ==
    [][\A r \in Requests :
          Starts(r) => \A given \in BOOLEAN, value \in BOOLEAN :
                          C4_Step(r, given, value)]_vars

\* A list has just answered with one record while the table holds an active
\* and an inactive record.
C4_Witness ==
    /\ last.handler = "leer_alumnos"
    /\ Len(last.response.body) = 1
    /\ \E a \in alumnos, b \in alumnos : a.activo /\ ~b.activo

\* C7: a request that holds an open session eventually closes it, whatever
\* way its handler ends; a request that is over holds no session and no
\* session is open but those of the requests in flight; two requests in
\* flight never hold the same session.
C7_SessionsOwned ==
    /\ \A r \in Requests : pc[r] = "idle" <=> db[r] = 0
    /\ sessions = {db[r] : r \in {q \in Requests : pc[q] # "idle"}}
    /\ \A r \in Requests, q \in Requests :
        (r # q /\ db[r] # 0) => db[r] # db[q]

\* C7: sessions are owned by one request in flight each, and every open
\* session is eventually closed.
C7_SessionReleased ==
    /\ []C7_SessionsOwned
    /\ \A r \in Requests : (db[r] \in sessions) ~> (db[r] \notin sessions)

\* Both requests hold an open session, one of them after its handler failed.
C7_Witness ==
    /\ \A r \in Requests : db[r] \in sessions
    /\ \E r \in Requests : pc[r] = "exit" /\ response[r].status = 500
    /\ \E r \in Requests : pc[r] = "exit" /\ response[r].status = 404

\* C1: a create whose body has nombre and semestre (activo optional) is
\* accepted with activo taken as true when left out; it inserts one record
\* under an id not in use and, run alone, returns that record, equal to the
\* input in the three fields; a get on that id issued next returns the same
\* record.
C1_Accepted(r, raw) ==
    (raw.absent \subseteq {"activo"} /\ raw.wrong = {} /\ post_alumnos(r, raw))
    => /\ pc'[r] = "crear_refresh"
       /\ alumno'[r] = Alumno(raw.val.nombre, raw.val.semestre,
                              IF "activo" \in raw.absent THEN TRUE
                              ELSE raw.val.activo)
       /\ db_alumno'[r].id \notin IdsOf(alumnos)
       /\ alumnos' = alumnos \cup {AlumnoResponse(db_alumno'[r].id, alumno'[r])}

C1_Returned(r) ==
    (solo[r] /\ crear_refresh(r))
    => /\ response'[r] = Ok(<<AlumnoResponse(db_alumno[r].id, alumno[r])>>)
       /\ response'[r].body[1] \in alumnos

C1_GetNext(r, id) ==
    (/\ last.handler = "crear_alumno"
     /\ last.response.status = 200
     /\ last.response.body[1].id = id
     /\ leer_alumno(r, id))
    => response'[r] = last.response

\* C1: create returns its input under a new id, and the get issued next
\* returns the same record.
C1_CreateGetRoundTrip ==
    [][\A r \in Requests :
          /\ Starts(r) => \A raw \in RawBodies : C1_Accepted(r, raw)
          /\ C1_Returned(r)
          /\ Starts(r) => \A id \in Ids : C1_GetNext(r, id)]_vars

\* A get has just answered 200 for the record the request before created,
\* while another record is stored too.
C1_Witness ==
    /\ last.handler = "leer_alumno"
    /\ last.prev = "crear_alumno"
    /\ last.response.status = 200
    /\ Cardinality(alumnos) = 2

\* C5: an update on an id that exists, run alone, turns that record into the
\* id with the three supplied values and leaves every other record as it
\* was, returns the updated record, and a get on that id issued next returns
\* the same record.
C5_Read(r, id, raw) ==
    (/\ raw.absent = {}
     /\ raw.wrong = {}
     /\ id \in IdsOf(alumnos)
     /\ put_alumnos(r, id, raw))
    => /\ pc'[r] = "actualizar_commit"
       /\ alumno_id'[r] = id
       /\ alumno'[r] = raw.val
       /\ alumnos' = alumnos

C5_Commit(r) ==
    (solo[r] /\ actualizar_commit(r))
    => /\ pc'[r] = "actualizar_refresh"
       /\ alumno_id[r] \in IdsOf(alumnos)
       /\ alumnos' = { IF a.id = alumno_id[r]
                       THEN AlumnoResponse(alumno_id[r], alumno[r])
                       ELSE a : a \in alumnos }

C5_Returned(r) ==
    (solo[r] /\ actualizar_refresh(r))
    => /\ response'[r] = Ok(<<AlumnoResponse(alumno_id[r], alumno[r])>>)
       /\ response'[r].body[1] \in alumnos
       /\ alumnos' = alumnos

C5_GetNext(r, id) ==
    (/\ last.handler = "actualizar_alumno"
     /\ last.response.status = 200
     /\ last.alumno_id = id
     /\ leer_alumno(r, id))
    => response'[r] = last.response

\* C5: an update run alone overwrites the three fields of its record only,
\* returns the record, and the get issued next returns it too.
C5_UpdateOverwrites ==
    [][\A r \in Requests :
          /\ Starts(r) => \A id \in Ids, raw \in RawBodies :
                              C5_Read(r, id, raw)
          /\ C5_Commit(r)
          /\ C5_Returned(r)
          /\ Starts(r) => \A id \in Ids : C5_GetNext(r, id)]_vars

\* A get has just answered 200 for the record the request before updated,
\* while another record is stored too.
C5_Witness ==
    /\ last.handler = "leer_alumno"
    /\ last.prev = "actualizar_alumno"
    /\ last.response.status = 200
    /\ Cardinality(alumnos) = 2

\* C6: a delete on an id that exists, run alone, removes the one record of
\* that id, leaves the others, and returns the confirmation; a get or a
\* delete on that id issued next answers 404 and leaves the table as the
\* first delete left it, and so does a delete issued after that get.
C6_Commit(r) ==
    (solo[r] /\ eliminar_commit(r))
    => /\ Cardinality(Select(alumnos, alumno_id[r])) = 1
       /\ alumnos' = alumnos \ Select(alumnos, alumno_id[r])
       /\ response'[r] = Eliminado

C6_Next(r, id) ==
    (/\ \/ last.handler = "eliminar_alumno" /\ last.response.status = 200
        \/ last.handler = "leer_alumno" /\ last.prev = "eliminar_alumno"
     /\ last.alumno_id = id
     /\ (leer_alumno(r, id) \/ eliminar_alumno(r, id)))
    => /\ response'[r] = NotFound
       /\ alumnos' = alumnos

\* C6: a delete run alone removes its record only; a get or delete of that
\* id issued next answers 404 and changes nothing.
C6_DeleteRemoves ==
    [][\A r \in Requests :
          /\ C6_Commit(r)
          /\ Starts(r) => \A id \in Ids : C6_Next(r, id)]_vars

\* A second delete of the id the request before deleted has just answered
\* 404, while another record is still stored.
C6_Witness ==
    /\ last.handler = "eliminar_alumno"
    /\ last.prev = "eliminar_alumno"
    /\ last.response.status = 404
    /\ alumnos # {}

\* C8 as claimed: an update of a stored record whose body leaves out any of
\* the three fields is answered 422 and the table is unchanged.
C8_Claimed(r, id, raw) ==
    (raw.absent # {} /\ id \in IdsOf(alumnos) /\ put_alumnos(r, id, raw))
    => /\ response'[r].status = 422
       /\ alumnos' = alumnos

\* C8 as claimed: an update that leaves out a field is answered 422.
C8_AllThreeRequired ==
    [][\A r \in Requests :
          Starts(r) => \A id \in Ids, raw \in RawBodies :
                          C8_Claimed(r, id, raw)]_vars

\* C8 as amended: an update whose body leaves out nombre or semestre is
\* answered 422 with no database call and the table unchanged; an update
\* whose body leaves out only activo is accepted, with activo taken as true.
C8_Amended(r, id, raw) ==
    put_alumnos(r, id, raw)
    => /\ raw.absent \cap {"nombre", "semestre"} # {}
          => /\ response'[r] = Unprocessable
             /\ db_alumno'[r] = NoObject
             /\ alumnos' = alumnos
       /\ (raw.absent = {"activo"} /\ raw.wrong = {})
          => /\ response'[r].status # 422
             /\ id \in IdsOf(alumnos)
                => /\ pc'[r] = "actualizar_commit"
                   /\ alumno'[r] = Alumno(raw.val.nombre, raw.val.semestre, TRUE)
                   /\ db_alumno'[r].attrs = alumno'[r]

\* C8 as amended: nombre and semestre are required, activo defaults to true.
C8_NombreSemestreRequired ==
    [][\A r \in Requests :
          Starts(r) => \A id \in Ids, raw \in RawBodies :
                          C8_Amended(r, id, raw)]_vars

\* An update of a stored record has just been answered 422.
C8_Witness ==
    /\ last.handler = "actualizar_alumno"
    /\ last.response.status = 422
    /\ last.alumno_id \in IdsOf(alumnos)

\* C9 as claimed, for the errors the handlers raise themselves (a fault of
\* the storage engine set aside): a request answered with an error has
\* committed no change of its own.
C9_AllOrNothing ==
    [][\A r \in Requests :
          (/\ Responds(r)
           /\ response'[r].status # 200
           /\ response'[r].detail # "OperationalError")
          => ~db_alumno[r].written]_vars

\* C10 as claimed: when an update commits while another update of the same
\* id has committed and not yet returned, the stored record equals the
\* input of one of the two in all three fields; and an update answered 200
\* returns the values it supplied.
C10_OneInputWins(r, q) ==
    (/\ r # q
     /\ pc[q] = "actualizar_refresh"
     /\ alumno_id[q] = alumno_id[r]
     /\ actualizar_commit(r)
     /\ pc'[r] = "actualizar_refresh")
    => \A a \in Select(alumnos', alumno_id[r]) :
          RowOf(a) \in {alumno[r], alumno[q]}

C10_ReturnsOwnInput(r) ==
    (actualizar_refresh(r) /\ response'[r].status = 200)
    => response'[r].body = <<AlumnoResponse(alumno_id[r], alumno[r])>>

\* C10 as claimed: concurrent updates of one id leave the input of one of
\* them, and each returns its own input.
C10_LastWriterWins ==
    [][\A r \in Requests :
          /\ \A q \in Requests : C10_OneInputWins(r, q)
          /\ C10_ReturnsOwnInput(r)]_vars
=============================================================================
